---- MODULE Spec2Model ----
(***************************************************************************)
(* TechGlossary (glossary.js): the navigation trail, its session-storage   *)
(* mirror, the filter state and the filtered view, as a state machine.     *)
(*                                                                         *)
(* Representation.  A JavaScript string is a sequence of one-character     *)
(* strings, so toLowerCase, includes and indexOf are computed character by *)
(* character.  Category names are only ever compared with ===, so they     *)
(* are kept as atomic strings.  A JavaScript value that JSON.parse can     *)
(* produce is a record [k, s, e]: k is its type tag, s its characters (a   *)
(* string), e its elements (an array).  A JSON text is a sequence of       *)
(* tokens [t, s].                                                          *)
(***************************************************************************)
EXTENDS Integers, Sequences, FiniteSets, TLC

(***************************************************************************)
(* Bounds of the model.                                                    *)
(***************************************************************************)
\* the longest trail a regular navigation may produce
MaxTrail == 3
\* how many storage accesses (getItem, setItem) may throw in one run
MaxStorageFailures == 1
\* how many scrollToTerm timers may be pending at once
MaxScrollTimers == 1

(***************************************************************************)
(* JavaScript strings.                                                     *)
(***************************************************************************)
UpperToLower ==
  [c \in {"A", "B", "C", "D", "E", "F", "G", "H", "I", "J", "K", "L", "M",
          "N", "O", "P", "Q", "R", "S", "T", "U", "V", "W", "X", "Y", "Z"} |->
     CASE c = "A" -> "a" [] c = "B" -> "b" [] c = "C" -> "c" [] c = "D" -> "d"
       [] c = "E" -> "e" [] c = "F" -> "f" [] c = "G" -> "g" [] c = "H" -> "h"
       [] c = "I" -> "i" [] c = "J" -> "j" [] c = "K" -> "k" [] c = "L" -> "l"
       [] c = "M" -> "m" [] c = "N" -> "n" [] c = "O" -> "o" [] c = "P" -> "p"
       [] c = "Q" -> "q" [] c = "R" -> "r" [] c = "S" -> "s" [] c = "T" -> "t"
       [] c = "U" -> "u" [] c = "V" -> "v" [] c = "W" -> "w" [] c = "X" -> "x"
       [] c = "Y" -> "y" [] c = "Z" -> "z"]

LowerChar(c) == IF c \in DOMAIN UpperToLower THEN UpperToLower[c] ELSE c

\* String.prototype.toLowerCase
toLowerCase(s) == [i \in 1..Len(s) |-> LowerChar(s[i])]

\* String.prototype.indexOf(q): the least 0-based offset where q starts, or -1
StrIndexOf(s, q) ==
  LET hits == {i \in 0..(Len(s) - Len(q)) : \A j \in 1..Len(q) : s[i + j] = q[j]}
  IN  IF hits = {} THEN -1 ELSE CHOOSE i \in hits : \A j \in hits : i <= j

\* String.prototype.includes(q)
includes(s, q) == StrIndexOf(s, q) # -1

(***************************************************************************)
(* JavaScript values and JSON.                                             *)
(***************************************************************************)
JNull == [k |-> "null", s |-> <<>>, e |-> <<>>]
JNum == [k |-> "num", s |-> <<>>, e |-> <<>>]
JObj == [k |-> "obj", s |-> <<>>, e |-> <<>>]
JStr(s) == [k |-> "str", s |-> s, e |-> <<>>]
JArr(items) == [k |-> "arr", s |-> <<>>, e |-> items]

\* x === s for a JavaScript value x and a string s
StrictEq(x, s) == x.k = "str" /\ x.s = s

Tok(t) == [t |-> t, s |-> <<>>]
TokStr(s) == [t |-> "str", s |-> s]

ParseFail == [ok |-> FALSE, val |-> JNull, next |-> 0]

RECURSIVE ParseValue(_, _)
RECURSIVE ParseElements(_, _, _)
\* one JSON value starting at token i: [ok, val, next]
ParseValue(toks, i) ==
  IF i > Len(toks) THEN ParseFail
  ELSE LET tk == toks[i] IN
    CASE tk.t = "null" -> [ok |-> TRUE, val |-> JNull, next |-> i + 1]
      [] tk.t = "num" -> [ok |-> TRUE, val |-> JNum, next |-> i + 1]
      [] tk.t = "str" -> [ok |-> TRUE, val |-> JStr(tk.s), next |-> i + 1]
      [] tk.t = "{" ->
           IF i + 1 <= Len(toks) /\ toks[i + 1].t = "}"
           THEN [ok |-> TRUE, val |-> JObj, next |-> i + 2]
           ELSE ParseFail
      [] tk.t = "[" ->
           IF i + 1 <= Len(toks) /\ toks[i + 1].t = "]"
           THEN [ok |-> TRUE, val |-> JArr(<<>>), next |-> i + 2]
           ELSE ParseElements(toks, i + 1, <<>>)
      [] OTHER -> ParseFail

\* the elements of an array after its "[", up to and including its "]"
ParseElements(toks, i, acc) ==
  LET r == ParseValue(toks, i) IN
    IF ~r.ok \/ r.next > Len(toks) THEN ParseFail
    ELSE IF toks[r.next].t = ","
         THEN ParseElements(toks, r.next + 1, Append(acc, r.val))
    ELSE IF toks[r.next].t = "]"
         THEN [ok |-> TRUE, val |-> JArr(Append(acc, r.val)), next |-> r.next + 1]
    ELSE ParseFail

\* JSON.parse(text): ok = FALSE stands for the SyntaxError it throws
JSONparse(text) ==
  LET r == ParseValue(text, 1) IN
    IF r.ok /\ r.next = Len(text) + 1
    THEN [ok |-> TRUE, val |-> r.val]
    ELSE [ok |-> FALSE, val |-> JNull]

RECURSIVE JSONstringify(_)
RECURSIVE StringifyItems(_, _)
StringifyItems(items, i) ==
  IF i > Len(items) THEN <<>>
  ELSE (IF i > 1 THEN <<Tok(",")>> ELSE <<>>)
       \o JSONstringify(items[i]) \o StringifyItems(items, i + 1)

\* JSON.stringify(x)
JSONstringify(x) ==
  CASE x.k = "null" -> <<Tok("null")>>
    [] x.k = "num" -> <<Tok("num")>>
    [] x.k = "str" -> <<TokStr(x.s)>>
    [] x.k = "obj" -> <<Tok("{"), Tok("}")>>
    [] x.k = "arr" -> <<Tok("[")>> \o StringifyItems(x.e, 1) \o <<Tok("]")>>

(***************************************************************************)
(* The four-term fixture of tests/glossary.test.js.                        *)
(***************************************************************************)
id_api == <<"a", "p", "i">>
id_cicd == <<"c", "i", "-", "c", "d">>
id_docker == <<"d", "o", "c", "k", "e", "r">>
id_rest == <<"r", "e", "s", "t">>
name_api == <<"A", "P", "I">>
name_cicd == <<"C", "I", "/", "C", "D">>
name_docker == <<"D", "o", "c", "k", "e", "r">>
name_rest == <<"R", "E", "S", "T">>
full_api == <<"A", "p", "p", "l", "i", "c", "a", "t", "i", "o", "n", " ", "P", "r", "o", "g", "r", "a", "m", "m", "i", "n", "g", " ", "I", "n", "t", "e", "r", "f", "a", "c", "e">>
full_cicd == <<"C", "o", "n", "t", "i", "n", "u", "o", "u", "s", " ", "I", "n", "t", "e", "g", "r", "a", "t", "i", "o", "n", "/", "C", "o", "n", "t", "i", "n", "u", "o", "u", "s", " ", "D", "e", "p", "l", "o", "y", "m", "e", "n", "t">>
full_rest == <<"R", "e", "p", "r", "e", "s", "e", "n", "t", "a", "t", "i", "o", "n", "a", "l", " ", "S", "t", "a", "t", "e", " ", "T", "r", "a", "n", "s", "f", "e", "r">>
def_api == <<"A", " ", "s", "e", "t", " ", "o", "f", " ", "p", "r", "o", "t", "o", "c", "o", "l", "s", " ", "f", "o", "r", " ", "b", "u", "i", "l", "d", "i", "n", "g", " ", "s", "o", "f", "t", "w", "a", "r", "e", " ", "a", "p", "p", "l", "i", "c", "a", "t", "i", "o", "n", "s">>
def_cicd == <<"A", "u", "t", "o", "m", "a", "t", "e", "d", " ", "s", "o", "f", "t", "w", "a", "r", "e", " ", "d", "e", "v", "e", "l", "o", "p", "m", "e", "n", "t", " ", "p", "r", "a", "c", "t", "i", "c", "e", "s">>
def_docker == <<"A", " ", "p", "l", "a", "t", "f", "o", "r", "m", " ", "f", "o", "r", " ", "d", "e", "v", "e", "l", "o", "p", "i", "n", "g", ",", " ", "s", "h", "i", "p", "p", "i", "n", "g", ",", " ", "a", "n", "d", " ", "r", "u", "n", "n", "i", "n", "g", " ", "a", "p", "p", "l", "i", "c", "a", "t", "i", "o", "n", "s", " ", "i", "n", " ", "c", "o", "n", "t", "a", "i", "n", "e", "r", "s">>
def_rest == <<"A", "n", " ", "a", "r", "c", "h", "i", "t", "e", "c", "t", "u", "r", "a", "l", " ", "s", "t", "y", "l", "e", " ", "f", "o", "r", " ", "d", "i", "s", "t", "r", "i", "b", "u", "t", "e", "d", " ", "s", "y", "s", "t", "e", "m", "s">>
GraphQL == <<"G", "r", "a", "p", "h", "Q", "L">>
Jenkins == <<"J", "e", "n", "k", "i", "n", "s">>
GitHubActions == <<"G", "i", "t", "H", "u", "b", " ", "A", "c", "t", "i", "o", "n", "s">>
Kubernetes == <<"K", "u", "b", "e", "r", "n", "e", "t", "e", "s">>
Container == <<"C", "o", "n", "t", "a", "i", "n", "e", "r">>
HTTP == <<"H", "T", "T", "P">>

\* a Term: fullForm is a JavaScript value (a string or null)
MkTerm(id, term, fullForm, definition, category, relatedTerms) ==
  [id |-> id, term |-> term, fullForm |-> fullForm, definition |-> definition,
   category |-> category, relatedTerms |-> relatedTerms]

term_api == MkTerm(id_api, name_api, JStr(full_api), def_api, "Architecture", <<name_rest, GraphQL>>)
term_cicd == MkTerm(id_cicd, name_cicd, JStr(full_cicd), def_cicd, "DevOps", <<Jenkins, GitHubActions>>)
term_docker == MkTerm(id_docker, name_docker, JNull, def_docker, "DevOps", <<Kubernetes, Container>>)
term_rest == MkTerm(id_rest, name_rest, JStr(full_rest), def_rest, "Architecture", <<name_api, HTTP>>)

\* a fetched payload: kind "ok" (a dataset), "noterms" (JSON without a terms
\* array) or "http" (response.ok is false)
Fixture ==
  [kind |-> "ok", terms |-> <<term_api, term_cicd, term_docker, term_rest>>,
   categories |-> <<"Architecture", "DevOps", "Security">>]

\* a second, unsorted dataset: names and categories that differ only in case,
\* a null and an empty full form, related names in another case ("ZED"),
\* absent ("No") and a proper prefix of a name ("Be")
term_b == MkTerm(<<"b">>, <<"Z", "e", "d">>, JStr(<<"A", "b">>), <<"x">>, "DevOps", <<<<"a", "n", "t">>, <<"N", "o">>>>)
term_a == MkTerm(<<"a">>, <<"a", "n", "t">>, JNull, <<"Z", "b">>, "devops", <<<<"Z", "E", "D">>>>)
term_c == MkTerm(<<"c">>, <<"B", "e", "e">>, JStr(<<>>), <<"a", "c">>, "DevOps", <<<<"B", "e">>>>)
Tiny ==
  [kind |-> "ok", terms |-> <<term_b, term_a, term_c>>,
   categories |-> <<"DevOps", "devops">>]

NoTerms == [kind |-> "noterms", terms |-> <<>>, categories |-> <<"DevOps">>]
HttpError == [kind |-> "http", terms |-> <<>>, categories |-> <<>>]

\* what the data URL may answer, by name
Payloads == {"Fixture", "Tiny", "NoTerms", "HttpError"}
PayloadOf(name) ==
  CASE name = "Fixture" -> Fixture
    [] name = "Tiny" -> Tiny
    [] name = "NoTerms" -> NoTerms
    [] name = "HttpError" -> HttpError

\* the text the user may type into the search box
SearchInputs == {<<>>, <<"Z">>}

\* the term IDs navigateToTerm is called with
NavIds == {id_api, id_rest, <<"a">>, <<"b">>}

(***************************************************************************)
(* The loaded dataset and the filter.                                      *)
(***************************************************************************)
\* this.data: null, or the parsed payload (terms is undefined when the
\* payload has no terms array)
DataNull == [k |-> "null", hasTerms |-> FALSE, terms |-> <<>>, categories |-> <<>>]
DataOf(p, terms) ==
  [k |-> "obj", hasTerms |-> (p.kind = "ok"), terms |-> terms, categories |-> p.categories]

\* the collation rank of a character, case ignored
Collation ==
  <<" ", ",", "-", "/", "a", "b", "c", "d", "e", "f", "g", "h", "i", "j", "k", "l",
    "m", "n", "o", "p", "q", "r", "s", "t", "u", "v", "w", "x", "y", "z">>
CharRank(c) ==
  LET l == LowerChar(c) IN
    IF \E i \in 1..Len(Collation) : Collation[i] = l
    THEN CHOOSE i \in 1..Len(Collation) : Collation[i] = l
    ELSE 0

RECURSIVE CompareFrom(_, _, _, _)
\* -1, 0 or 1 from position i on; primary = TRUE compares letters with case
\* ignored, primary = FALSE orders a lower-case letter before its upper case
CompareFrom(a, b, i, primary) ==
  IF i > Len(a) /\ i > Len(b) THEN 0
  ELSE IF i > Len(a) THEN -1
  ELSE IF i > Len(b) THEN 1
  ELSE LET ka == IF primary THEN CharRank(a[i]) ELSE (IF a[i] = LowerChar(a[i]) THEN 0 ELSE 1)
           kb == IF primary THEN CharRank(b[i]) ELSE (IF b[i] = LowerChar(b[i]) THEN 0 ELSE 1)
       IN  IF ka < kb THEN -1
           ELSE IF ka > kb THEN 1
           ELSE CompareFrom(a, b, i + 1, primary)

\* String.prototype.localeCompare
localeCompare(a, b) ==
  LET p == CompareFrom(a, b, 1, TRUE) IN
    IF p # 0 THEN p ELSE CompareFrom(a, b, 1, FALSE)

RECURSIVE InsertSorted(_, _)
InsertSorted(t, sorted) ==
  IF sorted = <<>> THEN <<t>>
  ELSE IF localeCompare(Head(sorted).term, t.term) <= 0
       THEN <<Head(sorted)>> \o InsertSorted(t, Tail(sorted))
       ELSE <<t>> \o sorted

\* a load that keeps the payload's order
SortTerms_PayloadOrder(terms) == terms

RECURSIVE SortTerms(_)
\* this.data.terms.sort((a, b) => a.term.localeCompare(b.term)), a stable sort
SortTerms(terms) ==
  IF terms = <<>> THEN <<>>
  ELSE InsertSorted(terms[Len(terms)], SortTerms(SubSeq(terms, 1, Len(terms) - 1)))

\* a lookup that answers with the first term for an ID no term has
FindTerm_OrFirst(d, termId) ==
  LET hits == {i \in 1..Len(d.terms) : d.terms[i].id = termId} IN
    IF hits = {} THEN (IF Len(d.terms) > 0 THEN 1 ELSE 0)
    ELSE CHOOSE i \in hits : \A j \in hits : i <= j

\* this.data.terms.find(t => t.id === termId): the index of the term, or 0
FindTerm(d, termId) ==
  LET hits == {i \in 1..Len(d.terms) : d.terms[i].id = termId} IN
    IF hits = {} THEN 0 ELSE CHOOSE i \in hits : \A j \in hits : i <= j

\* a lookup by name that accepts a name containing the text
findTermIdByName_Substring(d, termName) ==
  IF d.k = "null" THEN JNull
  ELSE LET hits == {i \in 1..Len(d.terms) :
                      includes(toLowerCase(d.terms[i].term), toLowerCase(termName))}
       IN  IF hits = {} THEN JNull
           ELSE JStr(d.terms[CHOOSE i \in hits : \A j \in hits : i <= j].id)

\* findTermIdByName(termName): the id of the first term whose name is
\* termName when both are lowercased, or null
findTermIdByName(d, termName) ==
  IF d.k = "null" THEN JNull
  ELSE LET hits == {i \in 1..Len(d.terms) :
                      toLowerCase(d.terms[i].term) = toLowerCase(termName)}
       IN  IF hits = {} THEN JNull
           ELSE JStr(d.terms[CHOOSE i \in hits : \A j \in hits : i <= j].id)

\* the related-term spans renderTermCard draws in a term's card: the name,
\* the id found for it, and whether the span is a link
RelatedSpans(d, term) ==
  [j \in 1..Len(term.relatedTerms) |->
     LET relatedTermId == findTermIdByName(d, term.relatedTerms[j]) IN
       [name |-> term.relatedTerms[j], id |-> relatedTermId,
        isClickable |-> relatedTermId # JNull]]

\* this.filteredTerms: an array of terms, or undefined
ViewOf(terms) == [k |-> "arr", terms |-> terms]
ViewUndefined == [k |-> "undef", terms |-> <<>>]

\* a comparison of categories that ignores the case of letters
FoldCategory(c) == IF c = "DevOps" THEN "devops" ELSE c
CategoryMatch_IgnoreCase(term, category) ==
  FoldCategory(term.category) = FoldCategory(category)

\* term.category === this.currentCategory
CategoryMatch(term, category) == term.category = category

\* a search that looks at the name and the definition only
SearchMatch_NoFullForm(term, query) ==
  \/ includes(toLowerCase(term.term), query)
  \/ includes(toLowerCase(term.definition), query)

\* the search predicate of filterTerms; query is this.searchQuery
SearchMatch(term, query) ==
  \/ includes(toLowerCase(term.term), query)
  \/ includes(toLowerCase(term.definition), query)
  \/ /\ term.fullForm.k = "str"
     /\ term.fullForm.s # <<>>
     /\ includes(toLowerCase(term.fullForm.s), query)

\* a filter whose search replaces the category filter instead of refining it
filterTerms_SearchReplaces(d, category, query) ==
  IF d.k = "null" THEN [threw |-> FALSE, val |-> ViewOf(<<>>)]
  ELSE IF ~d.hasTerms
       THEN [threw |-> (category # "all" \/ query # <<>>), val |-> ViewUndefined]
  ELSE IF query # <<>>
       THEN [threw |-> FALSE,
             val |-> ViewOf(SelectSeq(d.terms, LAMBDA t : SearchMatch(t, query)))]
  ELSE IF category # "all"
       THEN [threw |-> FALSE,
             val |-> ViewOf(SelectSeq(d.terms, LAMBDA t : CategoryMatch(t, category)))]
  ELSE [threw |-> FALSE, val |-> ViewOf(d.terms)]

\* filterTerms(): [threw, val]; threw stands for the TypeError of calling
\* filter on an undefined terms array
filterTerms(d, category, query) ==
  IF d.k = "null" THEN [threw |-> FALSE, val |-> ViewOf(<<>>)]
  ELSE IF ~d.hasTerms
       THEN [threw |-> (category # "all" \/ query # <<>>), val |-> ViewUndefined]
  ELSE LET byCategory ==
             IF category # "all"
             THEN SelectSeq(d.terms, LAMBDA t : CategoryMatch(t, category))
             ELSE d.terms
           bySearch ==
             IF query # <<>>
             THEN SelectSeq(byCategory, LAMBDA t : SearchMatch(t, query))
             ELSE byCategory
       IN  [threw |-> FALSE, val |-> ViewOf(bySearch)]

(***************************************************************************)
(* Session storage and the navigation trail.                               *)
(***************************************************************************)
\* the item under 'glossary-navigation-history': absent, or a JSON text
Absent == [present |-> FALSE, text |-> <<>>]
Stored(text) == [present |-> TRUE, text |-> text]

\* what an earlier page of the session may have left under the key: nothing,
\* or a trail saveHistory() wrote (its IDs resolved in the dataset of that
\* page, which need not be the dataset served now)
WrittenStores ==
  { Absent,
    Stored(JSONstringify(JArr(<<>>))),
    Stored(JSONstringify(JArr(<<JStr(<<"a">>), JStr(<<"b">>)>>))),
    Stored(JSONstringify(JArr(<<JStr(id_api), JStr(<<"a">>)>>))),
    Stored(JSONstringify(JArr(<<JStr(id_api), JStr(id_rest), JStr(id_api),
                                JStr(id_rest)>>))) }

\* values that something other than saveHistory() put under the key
ForeignStores ==
  { Stored(<<>>),
    Stored(<<Tok("junk")>>),
    Stored(<<Tok("["), TokStr(id_api)>>),
    Stored(JSONstringify(JNull)),
    Stored(JSONstringify(JNum)),
    Stored(JSONstringify(JObj)),
    Stored(JSONstringify(JStr(<<"a", "b">>))),
    Stored(JSONstringify(JStr(<<"x", "a", "p", "i">>))),
    Stored(JSONstringify(JArr(<<JStr(<<"a">>), JStr(<<"a">>)>>))),
    Stored(JSONstringify(JArr(<<JNum, JStr(id_rest)>>))) }

VARIABLES
  phase,              \* "constructed", "loading", "ready" or "error"
  payload,            \* what the fetch of dataUrl answers (a name of Payloads)
  data,               \* this.data
  filteredTerms,      \* this.filteredTerms
  currentCategory,    \* this.currentCategory
  searchQuery,        \* this.searchQuery
  navigationHistory,  \* this.navigationHistory, a JavaScript value
  sessionStore,       \* sessionStorage's item
  breadcrumb,         \* the breadcrumb bar: hidden, and the term IDs it shows
  wired,              \* the event handlers attached so far
  loadingShown,       \* the loading indicator is visible
  errorShown,         \* the error panel is visible
  dirty,              \* a storage read or write failed since the last good write
  failures,           \* the storage accesses that threw so far
  last,               \* the last operation: its argument (a term ID, or the text typed),
                      \* its outcome, and the trail's length before it
  scrollTimers,       \* the term IDs whose scrollToTerm timer (100 ms) is pending
  highlighted         \* the elements of the page that carry 'highlight-target';
                      \* each has a pending timer (1500 ms) that removes it

vars ==
  <<phase, payload, data, filteredTerms, currentCategory, searchQuery,
    navigationHistory, sessionStore, breadcrumb, wired, loadingShown,
    errorShown, dirty, failures, last, scrollTimers, highlighted>>

\* the elements cacheElements() found: none before init() ran
Cached(ph) == ph # "constructed"

\* the length of the trail (0 for a value that has none)
TrailLen(hist) ==
  CASE hist.k = "arr" -> Len(hist.e) [] hist.k = "str" -> Len(hist.s) [] OTHER -> 0

Op(op, id, fb, out) ==
  [op |-> op, id |-> id, fb |-> fb, out |-> out, len |-> TrailLen(navigationHistory)]

\* a storage access may throw while the bound allows it
MayFail(ok) == ok \/ failures < MaxStorageFailures
Count(ok) == IF ok THEN failures ELSE failures + 1

\* a restore that leaves the parser's failure in the trail
initializeHistory_NoFallback(hist, store, readThrows) ==
  IF readThrows THEN JArr(<<>>)
  ELSE IF store.present /\ store.text # <<>>
       THEN LET r == JSONparse(store.text) IN
              IF r.ok THEN r.val ELSE JNull
       ELSE hist

\* initializeHistory(): the trail after it; readThrows is getItem throwing
initializeHistory(hist, store, readThrows) ==
  IF readThrows THEN JArr(<<>>)
  ELSE IF store.present /\ store.text # <<>>
       THEN LET r == JSONparse(store.text) IN
              IF r.ok THEN r.val ELSE JArr(<<>>)
       ELSE hist

\* a save that skips the empty trail
saveHistory_SkipEmpty(hist, store, writeOk) ==
  IF writeOk /\ TrailLen(hist) > 0 THEN Stored(JSONstringify(hist)) ELSE store

\* saveHistory(): the item after it; writeOk = FALSE is setItem throwing
saveHistory(hist, store, writeOk) ==
  IF writeOk THEN Stored(JSONstringify(hist)) ELSE store

\* the index in the store of the term a trail entry names, or 0
Resolve(d, entry) == IF entry.k = "str" THEN FindTerm(d, entry.s) ELSE 0

\* renderBreadcrumb(): [bc, threw]; threw stands for a TypeError
renderBreadcrumb(hist, d, bc, cached) ==
  IF ~cached THEN [bc |-> bc, threw |-> FALSE]
  ELSE CASE hist.k = "null" -> [bc |-> bc, threw |-> TRUE]
         [] hist.k \in {"num", "obj"} ->
              [bc |-> [bc EXCEPT !.hidden = FALSE], threw |-> TRUE]
         [] hist.k = "str" ->
              IF Len(hist.s) = 0
              THEN [bc |-> [bc EXCEPT !.hidden = TRUE], threw |-> FALSE]
              ELSE [bc |-> [bc EXCEPT !.hidden = FALSE], threw |-> TRUE]
         [] hist.k = "arr" ->
              IF Len(hist.e) = 0
              THEN [bc |-> [bc EXCEPT !.hidden = TRUE], threw |-> FALSE]
              ELSE IF d.k = "null"
                   THEN [bc |-> [hidden |-> FALSE, items |-> <<>>], threw |-> FALSE]
              ELSE IF ~d.hasTerms
                      \/ \E i \in 1..Len(hist.e) : Resolve(d, hist.e[i]) = 0
                   THEN [bc |-> [bc EXCEPT !.hidden = FALSE], threw |-> TRUE]
              ELSE [bc |-> [hidden |-> FALSE,
                            items |-> [i \in 1..Len(hist.e) |-> hist.e[i].s]],
                    threw |-> FALSE]

\* a duplicate test that looks at the whole trail
IsTail_Anywhere(hist, termId) ==
  hist.k = "arr" /\ \E i \in 1..Len(hist.e) : StrictEq(hist.e[i], termId)

\* a duplicate test that never finds one
IsTail_Never(hist, termId) == FALSE

\* the duplicate-tail test of addToHistory
IsTail(hist, termId) ==
  CASE hist.k = "arr" -> Len(hist.e) > 0 /\ StrictEq(hist.e[Len(hist.e)], termId)
    [] hist.k = "str" -> Len(hist.s) > 0 /\ <<hist.s[Len(hist.s)]>> = termId
    [] OTHER -> FALSE

\* addToHistory(termId): [hist, store, bc, threw, saved]
addToHistory(hist, termId, store, d, bc, cached, writeOk) ==
  IF hist.k = "null"
  THEN [hist |-> hist, store |-> store, bc |-> bc, threw |-> TRUE, saved |-> "none"]
  ELSE IF IsTail(hist, termId)
  THEN [hist |-> hist, store |-> store, bc |-> bc, threw |-> FALSE, saved |-> "none"]
  ELSE IF hist.k # "arr"
  THEN [hist |-> hist, store |-> store, bc |-> bc, threw |-> TRUE, saved |-> "none"]
  ELSE LET pushed == JArr(Append(hist.e, JStr(termId)))
           rb == renderBreadcrumb(pushed, d, bc, cached)
       IN  [hist |-> pushed, store |-> saveHistory(pushed, store, writeOk),
            bc |-> rb.bc, threw |-> rb.threw,
            saved |-> IF writeOk THEN "ok" ELSE "failed"]

\* lastIndexOf on the trail
TrailIndexOf_Last(hist, termId) ==
  IF hist.k = "str" THEN StrIndexOf(hist.s, termId)
  ELSE LET hits == {i \in 1..Len(hist.e) : StrictEq(hist.e[i], termId)} IN
         IF hits = {} THEN -1
         ELSE (CHOOSE i \in hits : \A j \in hits : i >= j) - 1

\* Array.prototype.indexOf / String.prototype.indexOf on the trail
TrailIndexOf(hist, termId) ==
  IF hist.k = "str" THEN StrIndexOf(hist.s, termId)
  ELSE LET hits == {i \in 1..Len(hist.e) : StrictEq(hist.e[i], termId)} IN
         IF hits = {} THEN -1
         ELSE (CHOOSE i \in hits : \A j \in hits : i <= j) - 1

\* a slice that stops before the entry at n
TrailSlice_BeforeTarget(hist, n) ==
  IF hist.k = "str" THEN JStr(SubSeq(hist.s, 1, n - 1)) ELSE JArr(SubSeq(hist.e, 1, n - 1))

\* slice(0, n) of the trail
TrailSlice(hist, n) ==
  IF hist.k = "str" THEN JStr(SubSeq(hist.s, 1, n)) ELSE JArr(SubSeq(hist.e, 1, n))

\* a re-render that refines the view drawn before instead of the dataset
filterAndRender_Refine(d, category, query, view, cached) ==
  LET r == IF d.k = "obj" /\ d.hasTerms /\ view.k = "arr"
           THEN filterTerms([d EXCEPT !.terms = view.terms], category, query)
           ELSE filterTerms(d, category, query)
  IN  IF r.threw THEN [view |-> view, threw |-> TRUE]
      ELSE [view |-> r.val, threw |-> cached /\ r.val.k = "undef"]

\* filterAndRender(): [view, threw]
filterAndRender(d, category, query, view, cached) ==
  LET r == filterTerms(d, category, query) IN
    IF r.threw THEN [view |-> view, threw |-> TRUE]
    ELSE [view |-> r.val, threw |-> cached /\ r.val.k = "undef"]

(***************************************************************************)
(* The elements of the page that carry a data-term-id attribute, and the   *)
(* highlight scrollToTerm puts on one of them.                             *)
(***************************************************************************)
\* kind "crumb": a link of the breadcrumb bar; "card": the article of a term;
\* "span": a related-term link, in the card of the term `card`
Elem(kind, id, card) == [kind |-> kind, id |-> id, card |-> card]

\* container.innerHTML is assigned: the cards and their spans are replaced
AfterRenderTerms(hl, cached, threw) ==
  IF cached /\ ~threw THEN {el \in hl : el.kind = "crumb"} ELSE hl

\* breadcrumbItems.innerHTML is assigned: the links of the bar are replaced
AfterRenderBreadcrumb(hl, cached, threw, hist) ==
  IF cached /\ ~threw /\ TrailLen(hist) > 0
  THEN {el \in hl : el.kind # "crumb"} ELSE hl

\* document.querySelector('[data-term-id="termId"]'): the first element in
\* document order that carries the ID, as a sequence of at most one element.
\* The breadcrumb bar precedes the cards; in the bar every item but the last
\* is a link with the ID; a card is an article with the ID, followed by its
\* related-term links with the IDs they lead to.
querySelector(bc, view, d, termId) ==
  LET cards == IF view.k = "arr" THEN view.terms ELSE <<>>
      Carries(c) ==
        \/ cards[c].id = termId
        \/ \E j \in 1..Len(cards[c].relatedTerms) :
             RelatedSpans(d, cards[c])[j].id = JStr(termId)
      hits == {c \in 1..Len(cards) : Carries(c)}
  IN  IF \E i \in 1..(Len(bc.items) - 1) : bc.items[i] = termId
      THEN <<Elem("crumb", termId, <<>>)>>
      ELSE IF hits = {} THEN <<>>
      ELSE LET c == CHOOSE c \in hits : \A x \in hits : c <= x IN
             IF cards[c].id = termId
             THEN <<Elem("card", termId, termId)>>
             ELSE <<Elem("span", termId, cards[c].id)>>

(***************************************************************************)
(* The state after the constructor.                                        *)
(***************************************************************************)
InitFrom(stores) ==
  /\ phase = "constructed"
  /\ payload \in Payloads
  /\ data = DataNull
  /\ filteredTerms = ViewOf(<<>>)
  /\ currentCategory = "all"
  /\ searchQuery = <<>>
  /\ navigationHistory = JArr(<<>>)
  /\ sessionStore \in stores
  /\ breadcrumb = [hidden |-> TRUE, items |-> <<>>]
  /\ wired = {}
  /\ loadingShown = FALSE
  /\ errorShown = FALSE
  /\ dirty = FALSE
  /\ failures = 0
  /\ last = [op |-> "new", id |-> <<>>, fb |-> FALSE, out |-> "ok", len |-> 0]
  /\ scrollTimers = {}
  /\ highlighted = {}

\* a session whose storage holds what the program itself may have written
Init == InitFrom(WrittenStores)

\* a session whose storage may hold anything
InitAnyStore == InitFrom(WrittenStores \cup ForeignStores)

(***************************************************************************)
(* init() up to its await: cacheElements, initializeHistory,               *)
(* attachEventListeners, showLoading, and the fetch is under way.          *)
(***************************************************************************)
InitStart ==
  /\ phase = "constructed"
  /\ \E readThrows \in BOOLEAN :
       /\ MayFail(~readThrows)
       /\ failures' = Count(~readThrows)
       /\ navigationHistory' = initializeHistory(navigationHistory, sessionStore, readThrows)
       /\ dirty' = readThrows
       /\ last' = Op("init", <<>>, FALSE, IF readThrows THEN "readfail" ELSE "ok")
  /\ phase' = "loading"
  /\ wired' = wired \cup {"search", "clear"}
  /\ loadingShown' = TRUE
  /\ UNCHANGED <<payload, data, filteredTerms, currentCategory, searchQuery,
                 sessionStore, breadcrumb, errorShown, scrollTimers, highlighted>>

(***************************************************************************)
(* The fetch settles and init() runs to its end: loadData,                 *)
(* renderCategoryFilters, filterAndRender, renderBreadcrumb, hideLoading,  *)
(* or handleError on the first throw.                                      *)
(***************************************************************************)
LoadResolve ==
  /\ phase = "loading"
  /\ \/ /\ PayloadOf(payload).kind = "http"
        /\ phase' = "error"
        /\ errorShown' = TRUE
        /\ last' = Op("load", <<>>, FALSE, "http")
        /\ UNCHANGED <<data, filteredTerms, breadcrumb, wired, highlighted>>
     \/ /\ PayloadOf(payload).kind = "noterms"
        /\ data' = DataOf(PayloadOf(payload), <<>>)
        /\ phase' = "error"
        /\ errorShown' = TRUE
        /\ last' = Op("load", <<>>, FALSE, "format")
        /\ UNCHANGED <<filteredTerms, breadcrumb, wired, highlighted>>
     \/ /\ PayloadOf(payload).kind = "ok"
        /\ LET d == DataOf(PayloadOf(payload), SortTerms(PayloadOf(payload).terms))
               fr == filterAndRender(d, currentCategory, searchQuery, filteredTerms, TRUE)
               rb == renderBreadcrumb(navigationHistory, d, breadcrumb, TRUE)
           IN  /\ data' = d
               /\ wired' = wired \cup {"category"}
               /\ filteredTerms' = fr.view
               /\ breadcrumb' = rb.bc
               /\ phase' = IF rb.threw THEN "error" ELSE "ready"
               /\ errorShown' = rb.threw
               /\ last' = Op("load", <<>>, FALSE, IF rb.threw THEN "threw" ELSE "ok")
               /\ highlighted' =
                    AfterRenderBreadcrumb(AfterRenderTerms(highlighted, TRUE, fr.threw),
                                          TRUE, rb.threw, navigationHistory)
  /\ loadingShown' = FALSE
  /\ UNCHANGED <<payload, currentCategory, searchQuery, navigationHistory,
                 sessionStore, dirty, failures, scrollTimers>>

(***************************************************************************)
(* The 'input' listener of the search box.                                 *)
(***************************************************************************)
SearchInput(text) ==
  /\ "search" \in wired
  /\ LET q == toLowerCase(text)
         fr == filterAndRender(data, currentCategory, q, filteredTerms, Cached(phase))
     IN  /\ searchQuery' = q
         /\ filteredTerms' = fr.view
         /\ last' = Op("search", text, FALSE, IF fr.threw THEN "threw" ELSE "ok")
         /\ highlighted' = AfterRenderTerms(highlighted, Cached(phase), fr.threw)
  /\ UNCHANGED <<phase, payload, data, currentCategory, navigationHistory,
                 sessionStore, breadcrumb, wired, loadingShown, errorShown, dirty,
                 failures, scrollTimers>>

(***************************************************************************)
(* The 'click' listener of the category buttons.                           *)
(***************************************************************************)
CategoryClick(category) ==
  /\ "category" \in wired
  /\ category \in {"all"} \cup {data.categories[i] : i \in 1..Len(data.categories)}
  /\ LET fr == filterAndRender(data, category, searchQuery, filteredTerms, Cached(phase))
     IN  /\ currentCategory' = category
         /\ filteredTerms' = fr.view
         /\ last' = Op("category", <<>>, FALSE, IF fr.threw THEN "threw" ELSE "ok")
         /\ highlighted' = AfterRenderTerms(highlighted, Cached(phase), fr.threw)
  /\ UNCHANGED <<phase, payload, data, searchQuery, navigationHistory,
                 sessionStore, breadcrumb, wired, loadingShown, errorShown, dirty,
                 failures, scrollTimers>>

(***************************************************************************)
(* clearHistory().                                                         *)
(***************************************************************************)
\* a clear that resets the filter state as a navigation does
ClearHistory_AndFilters(writeOk) ==
  LET cleared == JArr(<<>>)
      rb == renderBreadcrumb(cleared, data, breadcrumb, Cached(phase))
  IN  /\ MayFail(writeOk)
      /\ failures' = Count(writeOk)
      /\ navigationHistory' = cleared
      /\ sessionStore' = saveHistory(cleared, sessionStore, writeOk)
      /\ breadcrumb' = rb.bc
      /\ dirty' = ~writeOk
      /\ searchQuery' = <<>>
      /\ currentCategory' = "all"
      /\ last' = Op("clear", <<>>, FALSE, IF writeOk THEN "ok" ELSE "writefail")
      /\ UNCHANGED <<phase, payload, data, filteredTerms, wired, loadingShown,
                     errorShown, scrollTimers, highlighted>>

ClearHistory(writeOk) ==
  LET cleared == JArr(<<>>)
      rb == renderBreadcrumb(cleared, data, breadcrumb, Cached(phase))
  IN  /\ MayFail(writeOk)
      /\ failures' = Count(writeOk)
      /\ navigationHistory' = cleared
      /\ sessionStore' = saveHistory(cleared, sessionStore, writeOk)
      /\ breadcrumb' = rb.bc
      /\ dirty' = ~writeOk
      /\ last' = Op("clear", <<>>, FALSE, IF writeOk THEN "ok" ELSE "writefail")
      /\ UNCHANGED <<phase, payload, data, filteredTerms, currentCategory,
                     searchQuery, wired, loadingShown, errorShown, scrollTimers,
                     highlighted>>

(***************************************************************************)
(* navigateToTerm(termId, fromBreadcrumb).                                 *)
(***************************************************************************)
\* the part after the history update: reset the filters, re-render, and
\* scrollToTerm, which starts the 100 ms timer
NavigateTail(termId, fb, hist, store, bc, saved) ==
  LET fr == filterAndRender(data, "all", <<>>, filteredTerms, Cached(phase))
      rb == renderBreadcrumb(hist, data, bc, Cached(phase))
  IN  /\ navigationHistory' = hist
      /\ sessionStore' = store
      /\ searchQuery' = <<>>
      /\ currentCategory' = "all"
      /\ filteredTerms' = fr.view
      /\ breadcrumb' = rb.bc
      /\ dirty' = IF saved = "none" THEN dirty ELSE saved = "failed"
      /\ failures' = Count(saved # "failed")
      /\ last' = Op("navigate", termId, fb, IF rb.threw THEN "threw" ELSE "ok")
      /\ highlighted' =
           AfterRenderBreadcrumb(AfterRenderTerms(highlighted, Cached(phase), fr.threw),
                                 Cached(phase), rb.threw, hist)
      /\ ~rb.threw => Cardinality(scrollTimers \cup {termId}) <= MaxScrollTimers
      /\ scrollTimers' = IF rb.threw THEN scrollTimers ELSE scrollTimers \cup {termId}

\* navigateToTerm returns, or throws, before it changes anything
NavigateNothing(termId, fb, out) ==
  /\ last' = Op("navigate", termId, fb, out)
  /\ UNCHANGED <<filteredTerms, currentCategory, searchQuery, navigationHistory,
                 sessionStore, breadcrumb, dirty, failures, scrollTimers, highlighted>>

NavigateToTerm(termId, fb, writeOk) ==
  /\ UNCHANGED <<phase, payload, data, wired, loadingShown, errorShown>>
  /\ IF data.k = "null" THEN writeOk /\ NavigateNothing(termId, fb, "nodata")
     ELSE IF ~data.hasTerms THEN writeOk /\ NavigateNothing(termId, fb, "threw")
     ELSE IF FindTerm(data, termId) = 0 THEN writeOk /\ NavigateNothing(termId, fb, "miss")
     ELSE IF fb
     THEN IF navigationHistory.k \in {"null", "num", "obj"}
          THEN writeOk /\ NavigateNothing(termId, fb, "threw")
          ELSE LET index == TrailIndexOf(navigationHistory, termId) IN
                 IF index # -1
                 THEN LET cut == TrailSlice(navigationHistory, index + 1) IN
                        /\ MayFail(writeOk)
                        /\ NavigateTail(termId, fb, cut,
                                        saveHistory(cut, sessionStore, writeOk),
                                        breadcrumb, IF writeOk THEN "ok" ELSE "failed")
                 ELSE writeOk /\ NavigateTail(termId, fb, navigationHistory,
                                              sessionStore, breadcrumb, "none")
     ELSE LET r == addToHistory(navigationHistory, termId, sessionStore, data,
                                breadcrumb, Cached(phase), writeOk)
          IN  /\ r.hist.k = "arr" => Len(r.hist.e) <= MaxTrail
              /\ IF r.saved = "none" THEN writeOk ELSE MayFail(writeOk)
              /\ IF r.threw
                 THEN /\ navigationHistory' = r.hist
                      /\ sessionStore' = r.store
                      /\ breadcrumb' = r.bc
                      /\ dirty' = IF r.saved = "none" THEN dirty ELSE r.saved = "failed"
                      /\ failures' = Count(r.saved # "failed")
                      /\ last' = Op("navigate", termId, fb, "threw")
                      /\ UNCHANGED <<filteredTerms, currentCategory, searchQuery,
                                     scrollTimers, highlighted>>
                 ELSE NavigateTail(termId, fb, r.hist, r.store, r.bc, r.saved)

(***************************************************************************)
(* The 'click' listener of the breadcrumb links: every item of the bar but *)
(* the last is a link that carries its term's ID.                          *)
(***************************************************************************)
BreadcrumbClick(i, writeOk) ==
  /\ Cached(phase)
  /\ ~breadcrumb.hidden
  /\ i \in 1..(Len(breadcrumb.items) - 1)
  /\ NavigateToTerm(breadcrumb.items[i], TRUE, writeOk)

(***************************************************************************)
(* The 'click' and 'keydown' listeners of the related-term links of the    *)
(* cards drawn: span j of card c.                                          *)
(***************************************************************************)
RelatedClick(c, j, writeOk) ==
  /\ Cached(phase)
  /\ filteredTerms.k = "arr"
  /\ c \in 1..Len(filteredTerms.terms)
  /\ j \in 1..Len(filteredTerms.terms[c].relatedTerms)
  /\ LET span == RelatedSpans(data, filteredTerms.terms[c])[j] IN
       /\ span.isClickable
       /\ NavigateToTerm(span.id.s, FALSE, writeOk)

(***************************************************************************)
(* A reload of the page in the same session: a new TechGlossary and its    *)
(* init() up to the await, on the session storage as it is.                *)
(***************************************************************************)
\* a reload that finds the filter state of the page before it
Reload_KeepsFilters(readThrows) ==
  /\ phase # "constructed"
  /\ MayFail(~readThrows)
  /\ failures' = Count(~readThrows)
  /\ phase' = "loading"
  /\ data' = DataNull
  /\ filteredTerms' = ViewOf(<<>>)
  /\ navigationHistory' = initializeHistory(JArr(<<>>), sessionStore, readThrows)
  /\ breadcrumb' = [hidden |-> TRUE, items |-> <<>>]
  /\ wired' = {"search", "clear"}
  /\ loadingShown' = TRUE
  /\ errorShown' = FALSE
  /\ dirty' = readThrows
  /\ last' = Op("reload", <<>>, FALSE, IF readThrows THEN "readfail" ELSE "ok")
  /\ scrollTimers' = {}
  /\ highlighted' = {}
  /\ UNCHANGED <<payload, sessionStore, currentCategory, searchQuery>>

Reload(readThrows) ==
  /\ phase # "constructed"
  /\ MayFail(~readThrows)
  /\ failures' = Count(~readThrows)
  /\ phase' = "loading"
  /\ data' = DataNull
  /\ filteredTerms' = ViewOf(<<>>)
  /\ currentCategory' = "all"
  /\ searchQuery' = <<>>
  /\ navigationHistory' = initializeHistory(JArr(<<>>), sessionStore, readThrows)
  /\ breadcrumb' = [hidden |-> TRUE, items |-> <<>>]
  /\ wired' = {"search", "clear"}
  /\ loadingShown' = TRUE
  /\ errorShown' = FALSE
  /\ dirty' = readThrows
  /\ last' = Op("reload", <<>>, FALSE, IF readThrows THEN "readfail" ELSE "ok")
  /\ scrollTimers' = {}
  /\ highlighted' = {}
  /\ UNCHANGED <<payload, sessionStore>>

(***************************************************************************)
(* scrollToTerm's timers.                                                  *)
(***************************************************************************)
\* the 100 ms timer fires: the first element with the ID, if there is one,
\* is scrolled to and highlighted, and its 1500 ms timer starts
ScrollTimerFires(termId) ==
  /\ termId \in scrollTimers
  /\ scrollTimers' = scrollTimers \ {termId}
  /\ LET targetCard == querySelector(breadcrumb, filteredTerms, data, termId) IN
       highlighted' = IF targetCard = <<>> THEN highlighted
                      ELSE highlighted \cup {targetCard[1]}
  /\ UNCHANGED <<phase, payload, data, filteredTerms, currentCategory, searchQuery,
                 navigationHistory, sessionStore, breadcrumb, wired, loadingShown,
                 errorShown, dirty, failures, last>>

\* the 1500 ms timer of a highlighted element fires
RevertTimerFires(el) ==
  /\ el \in highlighted
  /\ highlighted' = highlighted \ {el}
  /\ UNCHANGED <<phase, payload, data, filteredTerms, currentCategory, searchQuery,
                 navigationHistory, sessionStore, breadcrumb, wired, loadingShown,
                 errorShown, dirty, failures, last, scrollTimers>>

\* the breadcrumb links there can be: one less than the longest trail, which
\* is a restored one
MaxCrumbs == 3

Next ==
  \/ InitStart
  \/ LoadResolve
  \/ \E text \in SearchInputs : SearchInput(text)
  \/ \E category \in {"all", "Architecture", "DevOps", "devops", "Security"} :
       CategoryClick(category)
  \/ \E writeOk \in BOOLEAN : ClearHistory(writeOk)
  \/ \E termId \in NavIds, fb \in BOOLEAN, writeOk \in BOOLEAN :
       NavigateToTerm(termId, fb, writeOk)
  \/ \E i \in 1..MaxCrumbs, writeOk \in BOOLEAN : BreadcrumbClick(i, writeOk)
  \/ \E c \in DOMAIN filteredTerms.terms, writeOk \in BOOLEAN :
       \E j \in DOMAIN filteredTerms.terms[c].relatedTerms : RelatedClick(c, j, writeOk)
  \/ \E readThrows \in BOOLEAN : Reload(readThrows)
  \/ \E termId \in scrollTimers : ScrollTimerFires(termId)
  \/ \E el \in highlighted : RevertTimerFires(el)

Spec == Init /\ [][Next]_vars

SpecAnyStore == InitAnyStore /\ [][Next]_vars

\* a session that starts with nothing, or with an empty trail, under the key
FreshStores == {Absent, Stored(JSONstringify(JArr(<<>>)))}

InitFresh == InitFrom(FreshStores)

SpecFresh == InitFresh /\ [][Next]_vars

(***************************************************************************)
(* The filter on its own: a page that has just loaded a dataset, and the   *)
(* search box and the category buttons used on it.                         *)
(***************************************************************************)
\* the texts typed into the search box
FilterTexts ==
  { <<>>,
    <<"C", "o", "n", "t", "i", "n", "u", "o", "u", "s">>,
    <<"A", "P", "I">>,
    <<"d", "o", "c", "k", "e", "r">>,
    <<"s", "o", "f", "t", "w", "a", "r", "e">>,
    <<"Z">>, <<"b">>, <<"A", "B">>, <<"x", "y", "z">> }

FilterCategories == {"all", "Architecture", "DevOps", "devops", "Security"}

InitFilter ==
  /\ phase = "ready"
  /\ payload \in {"Fixture", "Tiny"}
  /\ data = DataOf(PayloadOf(payload), SortTerms(PayloadOf(payload).terms))
  /\ filteredTerms = ViewOf(data.terms)
  /\ currentCategory = "all"
  /\ searchQuery = <<>>
  /\ navigationHistory = JArr(<<>>)
  /\ sessionStore = Absent
  /\ breadcrumb = [hidden |-> TRUE, items |-> <<>>]
  /\ wired = {"search", "clear", "category"}
  /\ loadingShown = FALSE
  /\ errorShown = FALSE
  /\ dirty = FALSE
  /\ failures = 0
  /\ last = [op |-> "load", id |-> <<>>, fb |-> FALSE, out |-> "ok", len |-> 0]
  /\ scrollTimers = {}
  /\ highlighted = {}

NextFilter ==
  \/ \E text \in FilterTexts : SearchInput(text)
  \/ \E category \in FilterCategories : CategoryClick(category)

SpecFilter == InitFilter /\ [][NextFilter]_vars

(***************************************************************************)
(* The loaded page with its timers: navigation from the related-term links *)
(* and the breadcrumb links, the filter events, and the two timers of      *)
(* scrollToTerm.  A timer that was set fires after its delay, so each      *)
(* timer action is weakly fair.                                            *)
(***************************************************************************)
HighlightCategories == {"all", "DevOps"}

\* the IDs of the terms of the two datasets
TermIds ==
  {Fixture.terms[i].id : i \in 1..Len(Fixture.terms)}
    \cup {Tiny.terms[i].id : i \in 1..Len(Tiny.terms)}

\* the elements that can carry the data-term-id of a term navigated to
HighlightElems ==
  {Elem("crumb", id, <<>>) : id \in TermIds}
    \cup {Elem("card", id, id) : id \in TermIds}
    \cup UNION { LET d == DataOf(PayloadOf(name), SortTerms(PayloadOf(name).terms)) IN
                   UNION { { Elem("span", RelatedSpans(d, d.terms[c])[j].id.s, d.terms[c].id) :
                               j \in {x \in DOMAIN d.terms[c].relatedTerms :
                                        RelatedSpans(d, d.terms[c])[x].isClickable} } :
                           c \in DOMAIN d.terms } :
                 name \in {"Fixture", "Tiny"} }

NextHighlight ==
  \/ \E text \in SearchInputs : SearchInput(text)
  \/ \E category \in HighlightCategories : CategoryClick(category)
  \/ \E i \in 1..MaxCrumbs, writeOk \in BOOLEAN : BreadcrumbClick(i, writeOk)
  \/ \E c \in DOMAIN filteredTerms.terms :
       \E j \in DOMAIN filteredTerms.terms[c].relatedTerms, writeOk \in BOOLEAN :
         RelatedClick(c, j, writeOk)
  \/ \E termId \in scrollTimers : ScrollTimerFires(termId)
  \/ \E el \in highlighted : RevertTimerFires(el)

TimersFire ==
  /\ \A termId \in TermIds : WF_vars(ScrollTimerFires(termId))
  /\ \A el \in HighlightElems : WF_vars(RevertTimerFires(el))

SpecHighlight == InitFilter /\ [][NextHighlight]_vars /\ TimersFire

(***************************************************************************)
(* Properties.                                                             *)
(***************************************************************************)
\* the IDs of a list of terms
Ids(terms) == [i \in 1..Len(terms) |-> terms[i].id]

\* the terms of a list that satisfy P, in the list's order
Keep(terms, P(_)) == SelectSeq(terms, P)

\* q occurs in field when the case of letters is ignored
CIContains(field, q) ==
  \E off \in 0..(Len(field) - Len(q)) :
    \A j \in 1..Len(q) : LowerChar(field[off + j]) = LowerChar(q[j])

\* q occurs, case ignored, in the name, the definition or the full form
CIMatch(t, q) ==
  \/ CIContains(t.term, q)
  \/ CIContains(t.definition, q)
  \/ (t.fullForm.k = "str" /\ CIContains(t.fullForm.s, q))

\* termId names a term of the loaded dataset
Resolvable(termId) == data.k = "obj" /\ data.hasTerms /\ FindTerm(data, termId) # 0

\* the positions of the trail that hold termId
Occurrences(e, termId) == {i \in 1..Len(e) : e[i] = JStr(termId)}

\* C1: a breadcrumb navigation to a resolvable ID cuts the trail after the
\* first occurrence of the ID, leaves the trail as it is when the ID does not
\* occur in it, and never appends: the new trail is a prefix of the old one.
C1_BreadcrumbTruncates ==
  [][ (last'.op = "navigate" /\ last'.fb /\ Resolvable(last'.id)) =>
        LET e == navigationHistory.e
            occ == Occurrences(e, last'.id)
        IN  /\ navigationHistory'.k = "arr"
            /\ occ # {} =>
                 \E first \in occ :
                   /\ \A i \in occ : first <= i
                   /\ navigationHistory'.e = SubSeq(e, 1, first)
            /\ occ = {} => navigationHistory'.e = e
            /\ Len(navigationHistory'.e) <= Len(e)
            /\ navigationHistory'.e = SubSeq(e, 1, Len(navigationHistory'.e)) ]_vars

\* a trail [x, y, x] was cut back to [x] by a breadcrumb navigation to x
C1_Witness ==
  /\ last.op = "navigate" /\ last.fb /\ last.out = "ok" /\ Resolvable(last.id)
  /\ last.len = 3
  /\ navigationHistory = JArr(<<JStr(last.id)>>)

\* C2: a regular navigation to a resolvable ID leaves the trail as it is
\* when the ID is the trail's last entry, and otherwise adds exactly one
\* entry, the ID, at the end, also when the ID occurs earlier in the trail.
C2_AppendUnlessTail ==
  [][ (last'.op = "navigate" /\ ~last'.fb /\ Resolvable(last'.id)) =>
        LET e == navigationHistory.e IN
          IF Len(e) > 0 /\ e[Len(e)] = JStr(last'.id)
          THEN navigationHistory' = navigationHistory
          ELSE navigationHistory' = JArr(Append(e, JStr(last'.id))) ]_vars

\* a revisit: the ID was in the trail, not at its end, and got a new entry
C2_Witness ==
  /\ last.op = "navigate" /\ ~last.fb /\ last.out = "ok" /\ Resolvable(last.id)
  /\ last.len = 2
  /\ Len(navigationHistory.e) = 3
  /\ navigationHistory.e[1] = JStr(last.id)
  /\ navigationHistory.e[3] = JStr(last.id)

\* C3: the trail never holds the same ID at two adjacent positions.
C3_NoAdjacentDuplicates ==
  /\ navigationHistory.k = "arr"
  /\ \A i \in 1..(Len(navigationHistory.e) - 1) :
       navigationHistory.e[i] # navigationHistory.e[i + 1]

\* a restored trail grew by a navigation, and the page restored it again
C3_Witness ==
  /\ last.op = "reload" /\ last.out = "ok"
  /\ Len(navigationHistory.e) = 3
  /\ navigationHistory.e[1] = navigationHistory.e[3]

\* what a new page would restore from the session storage
Restored == initializeHistory(JArr(<<>>), sessionStore, FALSE)

\* C4: while no storage access has failed since the trail last changed, the
\* stored item decodes to the trail in memory, and a reload restores the
\* trail as it was at the moment of the reload.
C4_PersistenceRoundTrip ==
  /\ [] ( ((phase # "constructed" \/ last.op = "clear") /\ ~dirty) =>
            /\ Restored = navigationHistory
            /\ sessionStore.present =>
                 JSONparse(sessionStore.text) = [ok |-> TRUE, val |-> navigationHistory] )
  /\ [][ (last'.op = "reload" /\ last'.out = "ok" /\ ~dirty) =>
           navigationHistory' = navigationHistory ]_vars

\* append(a); append(b), then a reload: the trail is [a, b] again
C4_Witness ==
  /\ last.op = "reload" /\ last.out = "ok" /\ last.len = 2
  /\ navigationHistory = JArr(<<JStr(<<"a">>), JStr(<<"b">>)>>)
  /\ sessionStore = Stored(JSONstringify(navigationHistory))

\* C5: after a navigation to a resolvable ID the search query is empty, the
\* category is "all", the view is the filter's result for these, and the
\* term is in the view.
C5_NavigationResetsFilters ==
  (last.op = "navigate" /\ Resolvable(last.id)) =>
    /\ searchQuery = <<>>
    /\ currentCategory = "all"
    /\ filteredTerms = filterTerms(data, "all", <<>>).val
    /\ \E i \in 1..Len(filteredTerms.terms) : filteredTerms.terms[i].id = last.id

\* C6: a navigation to an ID that does not resolve changes neither the
\* trail, nor the stored item, nor the search query, nor the category, nor
\* the view, and throws nothing.
C6_MissChangesNothing ==
  [][ (last'.op = "navigate" /\ ~Resolvable(last'.id)) =>
        /\ UNCHANGED <<navigationHistory, sessionStore, searchQuery,
                       currentCategory, filteredTerms>>
        /\ last'.out # "threw" ]_vars

\* a filter event ran to its end on a loaded dataset
Filtered == data.k = "obj" /\ data.hasTerms /\ last.op \in {"load", "search", "category"}

\* C7: with an empty search query the view is exactly the terms of the
\* dataset whose category is the selected one, in the dataset's order, and
\* the whole dataset under "all"; a category no term carries gives the empty
\* list; on the fixture "DevOps" gives [ci-cd, docker].
C7_CategoryFilter ==
  (Filtered /\ searchQuery = <<>>) =>
    /\ last.out = "ok"
    /\ filteredTerms.k = "arr"
    /\ currentCategory = "all" => filteredTerms.terms = data.terms
    /\ currentCategory # "all" =>
         filteredTerms.terms = Keep(data.terms, LAMBDA t : t.category = currentCategory)
    /\ (payload = "Fixture" /\ currentCategory = "DevOps") =>
         Ids(filteredTerms.terms) = <<id_cicd, id_docker>>
    /\ (payload = "Fixture" /\ currentCategory = "Security") => filteredTerms.terms = <<>>
    /\ (payload = "Tiny" /\ currentCategory = "devops") => Ids(filteredTerms.terms) = <<<<"a">>>>
    /\ (payload = "Tiny" /\ currentCategory = "DevOps") =>
         Ids(filteredTerms.terms) = <<<<"c">>, <<"b">>>>

C7_Witness ==
  /\ payload = "Fixture" /\ last.op = "category" /\ last.out = "ok"
  /\ currentCategory = "DevOps" /\ searchQuery = <<>>
  /\ Ids(filteredTerms.terms) = <<id_cicd, id_docker>>

\* C8: under category "all" the view holds exactly the terms in which the
\* typed text occurs, case ignored, in the name, the definition or the full
\* form; a null full form is skipped without an error; on the fixture
\* "continuous" gives [ci-cd].
C8_SearchFilter ==
  (Filtered /\ currentCategory = "all") =>
    LET q == IF last.op = "search" THEN last.id ELSE searchQuery IN
      /\ last.out = "ok"
      /\ filteredTerms.k = "arr"
      /\ filteredTerms.terms = Keep(data.terms, LAMBDA t : CIMatch(t, q))
      /\ (payload = "Fixture" /\ q = <<"C", "o", "n", "t", "i", "n", "u", "o", "u", "s">>) =>
           Ids(filteredTerms.terms) = <<id_cicd>>

C8_Witness ==
  /\ payload = "Fixture" /\ last.op = "search" /\ last.out = "ok"
  /\ last.id = <<"C", "o", "n", "t", "i", "n", "u", "o", "u", "s">>
  /\ currentCategory = "all"
  /\ Ids(filteredTerms.terms) = <<id_cicd>>

\* a term is an element of a list of terms
InList(t, terms) == \E i \in 1..Len(terms) : terms[i] = t

\* C9: the view is the terms of the dataset, in the dataset's order and each
\* once, that are both in the view of the category alone and in the view of
\* the search alone.
C9_FilterComposition ==
  Filtered =>
    LET byCategory == filterTerms(data, currentCategory, <<>>).val.terms
        bySearch == filterTerms(data, "all", searchQuery).val.terms
    IN  /\ filteredTerms.k = "arr"
        /\ filteredTerms.terms =
             Keep(data.terms, LAMBDA t : InList(t, byCategory) /\ InList(t, bySearch))
        /\ \A i, j \in 1..Len(filteredTerms.terms) :
             i # j => filteredTerms.terms[i] # filteredTerms.terms[j]

C9_Witness ==
  /\ payload = "Fixture" /\ Filtered
  /\ currentCategory = "Architecture"
  /\ searchQuery = <<"s", "o", "f", "t", "w", "a", "r", "e">>
  /\ Ids(filteredTerms.terms) = <<id_api>>
  /\ Len(filterTerms(data, currentCategory, <<>>).val.terms) = 2
  /\ Len(filterTerms(data, "all", searchQuery).val.terms) = 2

\* the stored items that are absent, empty, or not JSON
Unparsable ==
  { Absent, Stored(<<>>), Stored(<<Tok("junk")>>),
    Stored(<<Tok("["), TokStr(id_api)>>) }

\* C10: whatever the session storage holds, the restore throws nothing and
\* the startup goes on to the load; an absent or unparsable item leaves the
\* trail empty.
C10_RestoreNeverFails ==
  (last.op \in {"init", "reload"}) =>
    /\ last.out \in {"ok", "readfail"}
    /\ phase = "loading"
    /\ loadingShown
    /\ {"search", "clear"} \subseteq wired
    /\ (sessionStore \in Unparsable \/ last.out = "readfail") =>
         navigationHistory = JArr(<<>>)

\* the page started on an item that is not JSON
C10_Witness ==
  /\ last.op = "init" /\ last.out = "ok"
  /\ sessionStore = Stored(<<Tok("junk")>>)
  /\ navigationHistory = JArr(<<>>)
  /\ phase = "loading"

\* C11: when the storage write of an append, a breadcrumb truncation or a
\* clear throws, nothing is thrown to the caller, the trail in memory takes
\* its new value, the filters are reset and the view and the breadcrumb bar
\* are recomputed, and the stored item keeps its content.
C11_BestEffortPersistence ==
  [][ (failures' = failures + 1 /\ last'.op \in {"navigate", "clear"}) =>
        LET e == navigationHistory.e
            id == last'.id
            occ == Occurrences(e, id)
        IN  /\ last'.out # "threw"
            /\ sessionStore' = sessionStore
            /\ last'.op = "clear" => navigationHistory' = JArr(<<>>)
            /\ (last'.op = "navigate" /\ last'.fb) =>
                 \E first \in occ : navigationHistory' = JArr(SubSeq(e, 1, first))
            /\ (last'.op = "navigate" /\ ~last'.fb) =>
                 navigationHistory' = JArr(Append(e, JStr(id)))
            /\ last'.op = "navigate" =>
                 /\ searchQuery' = <<>>
                 /\ currentCategory' = "all"
                 /\ filteredTerms' = filterTerms(data, "all", <<>>).val
            /\ breadcrumb'.hidden = (Len(navigationHistory'.e) = 0) ]_vars

\* the breadcrumb bar shows the trail, entry by entry
BarShowsTrail ==
  /\ ~breadcrumb.hidden
  /\ navigationHistory.k = "arr"
  /\ Len(breadcrumb.items) = Len(navigationHistory.e)
  /\ \A i \in 1..Len(breadcrumb.items) : navigationHistory.e[i] = JStr(breadcrumb.items[i])

\* C12: a click on the breadcrumb link at position i of the trail leaves
\* the trail equal to its entries up to and including position i.
C12_TruncationIsPositional ==
  [][ \A i \in 1..MaxCrumbs :
        (BarShowsTrail /\ \E writeOk \in BOOLEAN : BreadcrumbClick(i, writeOk)) =>
          navigationHistory' = JArr(SubSeq(navigationHistory.e, 1, i)) ]_vars

\* the IDs of the trail that name a term of the dataset, in the trail's order
ResolvingIds ==
  LET kept == SelectSeq(navigationHistory.e, LAMBDA x : Resolve(data, x) # 0)
  IN  [i \in 1..Len(kept) |-> kept[i].s]

\* C13: on a loaded dataset the breadcrumb bar, whenever it was rendered,
\* shows the terms of the trail's IDs in the trail's order, without the IDs
\* that name no term of the dataset, and rendering it throws nothing.
C13_BreadcrumbOmitsDangling ==
  (Cached(phase) /\ data.k = "obj" /\ data.hasTerms
     /\ last.op \in {"load", "navigate", "clear"}) =>
    /\ last.out # "threw"
    /\ breadcrumb.hidden = (Len(navigationHistory.e) = 0)
    /\ ~breadcrumb.hidden => breadcrumb.items = ResolvingIds

\* two strings are equal when the case of letters is ignored
CIEqual(a, b) ==
  /\ Len(a) = Len(b)
  /\ \A i \in 1..Len(a) : LowerChar(a[i]) = LowerChar(b[i])

\* the names the cards of the dataset give as related
RelatedNames ==
  UNION { {data.terms[i].relatedTerms[j] : j \in 1..Len(data.terms[i].relatedTerms)} :
          i \in 1..Len(data.terms) }

\* C14: for every related name of a loaded dataset, findTermIdByName gives
\* the id of a term whose name is the related name up to the case of
\* letters, and null exactly when there is no such term; the span of a
\* related name is a link with that id exactly when the lookup succeeds.  On
\* the fixture API's REST links to rest and its GraphQL is no link.
C14_RelatedTermResolution ==
  (data.k = "obj" /\ data.hasTerms) =>
    /\ \A n \in RelatedNames :
         LET r == findTermIdByName(data, n)
             same == {i \in 1..Len(data.terms) : CIEqual(data.terms[i].term, n)}
         IN  /\ r = JNull <=> same = {}
             /\ r # JNull => \E i \in same : r = JStr(data.terms[i].id)
    /\ \A c \in 1..Len(data.terms) :
         LET spans == RelatedSpans(data, data.terms[c]) IN
           \A j \in 1..Len(spans) :
             /\ spans[j].isClickable <=>
                  \E i \in 1..Len(data.terms) : CIEqual(data.terms[i].term, spans[j].name)
             /\ spans[j].isClickable =>
                  \E i \in 1..Len(data.terms) :
                    /\ CIEqual(data.terms[i].term, spans[j].name)
                    /\ spans[j].id = JStr(data.terms[i].id)
    /\ payload = "Fixture" =>
         RelatedSpans(data, term_api) =
           << [name |-> name_rest, id |-> JStr(id_rest), isClickable |-> TRUE],
              [name |-> GraphQL, id |-> JNull, isClickable |-> FALSE] >>
    /\ payload = "Tiny" =>
         /\ findTermIdByName(data, <<"Z", "E", "D">>) = JStr(<<"b">>)
         /\ findTermIdByName(data, <<"B", "e">>) = JNull

\* the REST link of API's card was followed
C14_Witness ==
  /\ payload = "Fixture" /\ phase = "ready"
  /\ last.op = "navigate" /\ ~last.fb /\ last.out = "ok" /\ last.id = id_rest
  /\ \E c \in 1..Len(filteredTerms.terms) :
       /\ filteredTerms.terms[c] = term_api
       /\ RelatedSpans(data, filteredTerms.terms[c])[1].id = JStr(id_rest)
       /\ ~RelatedSpans(data, filteredTerms.terms[c])[2].isClickable

\* C15: after a successful load data.terms holds the payload's terms, each
\* once, in ascending order of their names, and no event of the page
\* changes the dataset afterwards.
C15_DatasetSortedAndFixed ==
  /\ [] ( (data.k = "obj" /\ data.hasTerms) =>
            LET loaded == data.terms
                fetched == PayloadOf(payload).terms
            IN  /\ Len(loaded) = Len(fetched)
                /\ \A i \in 1..Len(fetched) : \E j \in 1..Len(loaded) : loaded[j] = fetched[i]
                /\ \A i, j \in 1..Len(loaded) : i # j => loaded[i] # loaded[j]
                /\ \A i, j \in 1..Len(loaded) :
                     i < j => localeCompare(loaded[i].term, loaded[j].term) <= 0
                /\ payload = "Fixture" => Ids(loaded) = <<id_api, id_cicd, id_docker, id_rest>>
                /\ payload = "Tiny" => Ids(loaded) = <<<<"a">>, <<"c">>, <<"b">>>>
                /\ data.categories = PayloadOf(payload).categories )
  /\ [][ (data.k = "obj" /\ last'.op # "reload") => data' = data ]_vars

\* the unsorted payload was loaded, and navigations and filter events followed
C15_Witness ==
  /\ payload = "Tiny" /\ phase = "ready"
  /\ Ids(data.terms) = <<<<"a">>, <<"c">>, <<"b">>>>
  /\ last.op = "search" /\ last.id = <<"Z">>
  /\ Len(navigationHistory.e) = 3

\* C16: a response that is not a success and a payload without a terms
\* array end the load with two different errors, and after either the page
\* shows the error and not the loading indicator, holds no dataset, and has
\* the trail it had before.
C16_LoadFailureOutcomes ==
  (last.op = "load" /\ PayloadOf(payload).kind # "ok") =>
    /\ PayloadOf(payload).kind = "http" => last.out = "http"
    /\ PayloadOf(payload).kind = "noterms" => last.out = "format"
    /\ phase = "error"
    /\ errorShown
    /\ ~loadingShown
    /\ data = DataNull
    /\ TrailLen(navigationHistory) = last.len

\* C17: while the load is under way the page shows the loading indicator,
\* no event handler is wired, and no search, category, navigation or clear
\* event changes the filter state, the trail or the stored item.
C17_LoadGate ==
  /\ [][ (phase = "loading" /\ last'.op \in {"search", "category", "navigate", "clear"}) =>
           UNCHANGED <<searchQuery, currentCategory, navigationHistory, sessionStore>> ]_vars
  /\ [] (phase = "loading" => (loadingShown /\ wired = {}))

\* C18: the result of filterTerms depends on the dataset, the category and
\* the query alone: computed again in any state, with whatever trail and
\* stored item, it is the view the last filter event computed from the same
\* three; and a filter event changes neither the dataset, nor the trail,
\* nor the stored item, nor the other half of the filter state.
C18_FilterDeterminism ==
  /\ [] ( (data.k = "null" \/ data.hasTerms) =>
            /\ ~filterTerms(data, currentCategory, searchQuery).threw
            /\ filterTerms(data, currentCategory, searchQuery).val = filteredTerms )
  /\ [][ (last'.op \in {"search", "category"}) =>
           /\ UNCHANGED <<data, navigationHistory, sessionStore>>
           /\ last'.op = "search" => UNCHANGED currentCategory
           /\ last'.op = "category" => UNCHANGED searchQuery ]_vars

\* the same search on the same dataset, after the trail grew and a write failed
C18_Witness ==
  /\ payload = "Tiny" /\ phase = "ready"
  /\ last.op = "search" /\ last.out = "ok"
  /\ searchQuery = <<"z">> /\ currentCategory = "all"
  /\ Ids(filteredTerms.terms) = <<<<"a">>, <<"b">>>>
  /\ Len(navigationHistory.e) = 2
  /\ dirty

\* the JSON text of the empty list
EmptyListText == <<Tok("["), Tok("]")>>

\* C19: clearHistory leaves the trail empty and the search query, the
\* category, the view and the dataset as they were; the stored item becomes
\* the text of the empty list when the write succeeds, and keeps its content
\* when the write throws.
C19_ClearHistory ==
  [][ (last'.op = "clear") =>
        /\ navigationHistory' = JArr(<<>>)
        /\ last'.out = "ok" => sessionStore' = Stored(EmptyListText)
        /\ last'.out # "ok" => sessionStore' = sessionStore
        /\ UNCHANGED <<searchQuery, currentCategory, filteredTerms, data>> ]_vars

\* a restored trail of two entries was cleared before the load resolved
C19_Witness ==
  /\ last.op = "clear" /\ last.out = "ok" /\ last.len = 2
  /\ phase = "loading"
  /\ navigationHistory = JArr(<<>>)
  /\ sessionStore = Stored(EmptyListText)

\* C19 as stated: the stored item is the text of the empty list after every
\* clearHistory.
C19_AsStated ==
  [][ (last'.op = "clear") =>
        /\ navigationHistory' = JArr(<<>>)
        /\ sessionStore' = Stored(EmptyListText)
        /\ UNCHANGED <<searchQuery, currentCategory, filteredTerms, data>> ]_vars

\* C20: after every successful navigation to a term the card of that term
\* becomes highlighted, and every element that is highlighted returns to
\* normal, whatever navigations and filter events come in between
C20_HighlightLiveness ==
  /\ \A id \in TermIds :
       (last.op = "navigate" /\ last.out = "ok" /\ last.id = id /\ id \in scrollTimers)
         ~> (Elem("card", id, id) \in highlighted)
  /\ \A el \in HighlightElems : (el \in highlighted) ~> (el \notin highlighted)

\* C21: a highlighted card returns to normal only by a revert timer: a step
\* in which a card loses the highlight changes nothing but the highlight, so
\* no search, category or navigation step takes the highlight away
C21_HighlightNotInterrupted ==
  [][ \A el \in highlighted :
        (el.kind = "card" /\ el \notin highlighted')
          => /\ highlighted' = highlighted \ {el}
             /\ UNCHANGED <<phase, payload, data, filteredTerms, currentCategory,
                            searchQuery, navigationHistory, sessionStore, breadcrumb,
                            wired, loadingShown, errorShown, dirty, failures, last,
                            scrollTimers>> ]_vars

\* C22: a search-text change and a category selection change the filter
\* state and the view and nothing of the navigation: the trail, the stored
\* item, the breadcrumb bar and the dataset are as before; the stored item
\* changes in navigation and clear steps only, and to the text of the trail;
\* after a reload the category is "all" and the query is empty.
C22_FilterLeavesNavigation ==
  /\ [][ (last'.op \in {"search", "category"}) =>
           UNCHANGED <<navigationHistory, sessionStore, breadcrumb, data, phase>> ]_vars
  /\ [][ (sessionStore' # sessionStore) =>
           /\ last'.op \in {"navigate", "clear"}
           /\ sessionStore' = Stored(JSONstringify(navigationHistory')) ]_vars
  /\ [][ (last'.op = "reload") =>
           (currentCategory' = "all" /\ searchQuery' = <<>>) ]_vars

\* a search and a category are set on a page with a stored trail of two
C22_Witness ==
  /\ last.op = "category" /\ last.out = "ok"
  /\ currentCategory = "DevOps" /\ searchQuery # <<>>
  /\ TrailLen(navigationHistory) = 2
  /\ sessionStore = Stored(JSONstringify(navigationHistory))

\* C23: whatever the session storage held at startup, the trail in memory is
\* a list of strings in every state
C23_TrailWellFormed ==
  /\ navigationHistory.k = "arr"
  /\ \A i \in 1..Len(navigationHistory.e) : navigationHistory.e[i].k = "str"

\* C24: after a navigation to a resolvable ID that is regular, or that comes
\* from the breadcrumb bar with the ID in the trail, the trail is not empty
\* and ends with the ID; and the trail changes in no step but a navigation,
\* a clear and the start of a page, so it still ends with the ID until then.
C24_TailIsCurrentTerm ==
  /\ [][ (/\ last'.op = "navigate" /\ Resolvable(last'.id)
          /\ (~last'.fb \/ Occurrences(navigationHistory.e, last'.id) # {})) =>
           /\ navigationHistory'.k = "arr"
           /\ Len(navigationHistory'.e) > 0
           /\ navigationHistory'.e[Len(navigationHistory'.e)] = JStr(last'.id) ]_vars
  /\ [][ (last'.op \notin {"navigate", "clear", "init", "reload"}) =>
           UNCHANGED navigationHistory ]_vars

\* navigations that ended on REST, and then a search: the trail ends with rest
C24_Witness ==
  /\ last.op = "search" /\ last.len = 2 /\ searchQuery # <<>>
  /\ navigationHistory = JArr(<<JStr(id_api), JStr(id_rest)>>)
  /\ sessionStore = Stored(JSONstringify(navigationHistory))
  /\ payload = "Fixture" /\ phase = "ready"

\* C25: in every state left by a handler that ran to its end (no exception
\* left it), filterTerms() computed on the dataset, the category and the
\* query of that state does not throw and gives the view that is stored
C25_ViewConsistency ==
  (last.out # "threw") =>
    LET r == filterTerms(data, currentCategory, searchQuery) IN
      /\ ~r.threw
      /\ r.val = filteredTerms

\* the IDs of the terms of the dataset the session is served
StoreIds == {PayloadOf(payload).terms[i].id : i \in 1..Len(PayloadOf(payload).terms)}

\* C26: in a session that starts with no stored trail or an empty one, every
\* entry of the trail in memory, and of the trail the stored item decodes
\* to, is the ID of a term of the dataset, in every state
C26_NoDanglingCreated ==
  /\ navigationHistory.k = "arr"
  /\ \A i \in 1..Len(navigationHistory.e) :
       navigationHistory.e[i].k = "str" /\ navigationHistory.e[i].s \in StoreIds
  /\ sessionStore.present =>
       LET p == JSONparse(sessionStore.text) IN
         /\ p.ok /\ p.val.k = "arr"
         /\ \A i \in 1..Len(p.val.e) : p.val.e[i].k = "str" /\ p.val.e[i].s \in StoreIds

\* a navigation to an ID no term has, tried on a trail of three that the
\* navigations of the session built and saved
C26_Witness ==
  /\ last.op = "navigate" /\ last.out = "miss" /\ last.len = 3
  /\ Len(navigationHistory.e) = 3
  /\ sessionStore = Stored(JSONstringify(navigationHistory))
  /\ payload = "Fixture"

====
